---- MODULE Spec2Model ----
(***************************************************************************)
(* Model of the image text-replacement pipeline of imagetranslaterAI:      *)
(* OCR post-filtering, mask building, background reconstruction,           *)
(* translation with identity fallback, font fitting, size harmonization    *)
(* and text drawing.                                                       *)
(*                                                                         *)
(* Numbers with a decimal factor in the source (1.2, 2.0, 0.6) are kept    *)
(* exact by comparing cross-multiplied integers.                           *)
(***************************************************************************)
EXTENDS Integers, Sequences, FiniteSets, TLC

VARIABLES
    pc,             \* position of the component under study
    font,           \* metrics of the font loaded from self.font_path
    fit_box,        \* box handed to _calculate_optimal_font_size
    fit_text,       \* text handed to _calculate_optimal_font_size
    fit_result,     \* what _calculate_optimal_font_size returned
    sized_items,    \* render_text: the list built by step 1, sorted by step 2
    groups,         \* render_text: the groups of step 2 (indices into sized_items)
    final_size,     \* render_text: entry['final_size'] per index, NoSize if unset
    text_blocks,    \* the OCR text blocks handed to translate_and_analyze
    response,       \* outcome of the external translation call
    analysis_data,  \* what translate_and_analyze returned
    raised,         \* an exception left translate_and_analyze or render_text
    drawn,          \* the _draw_text calls of render_text, in order
    boxes,          \* create_mask: the polygons to cover
    padding,        \* create_mask: the padding argument
    image_ok,       \* cv2.imread(image_path) returns an image
    mask,           \* the pixels of value 255 in the mask file
    mask_raised,    \* the exception create_mask raised, "none" if none
    img,            \* the pixels of the image file handed to the inpainter
    api_key,        \* Inpainter.api_key is set
    service,        \* outcome of the call to the generative inpainting service
    restored,       \* the pixels of the file at output_path
    bg_source,      \* which method wrote output_path
    entry,          \* how the reconstruction was entered
    stage_raised,   \* an exception left the reconstruction
    fill_mask,      \* the mask handed to cv2.inpaint by the local fill
    ocr_raw,        \* detect_text: what the detector returned for the image
    img_size,       \* <<w, h>> of the image file
    valid_results,  \* what detect_text returned
    out_format,     \* the image format named by the extension of output_path
    rendered_img,   \* the pixels of the file render_text wrote
    roi,            \* <<x, y, w, h>> handed to crop_image
    crop,           \* the pixels of the crop file, in the crop's own coordinates
    merged,         \* the pixels of the file merge_image wrote
    clock,          \* int(time.time()), in seconds
    runs,           \* per request: its inputs, position, paths and outcome
    files           \* the files on disk: path and the request that wrote it last

fitVars == <<font, fit_box, fit_text, fit_result>>

sizeVars == <<sized_items, groups, final_size>>

transVars == <<text_blocks, response, analysis_data, raised, drawn>>

maskVars == <<boxes, padding, image_ok, mask, mask_raised>>

inpaintVars == <<img, api_key, service, restored, bg_source, entry, stage_raised, fill_mask>>

ocrVars == <<ocr_raw, img_size, valid_results>>

composeVars == <<out_format, rendered_img>>

mergeVars == <<roi, crop, merged>>

runVars == <<clock, runs, files>>

vars == <<pc, fitVars, sizeVars, transVars, maskVars, inpaintVars, ocrVars,
          composeVars, mergeVars, runVars>>

(***************************************************************************)
(* Small helpers                                                           *)
(***************************************************************************)
Max(a, b) == IF a >= b THEN a ELSE b

Min(a, b) == IF a <= b THEN a ELSE b

SetMax(S) == CHOOSE m \in S : \A z \in S : z <= m

SetMin(S) == CHOOSE m \in S : \A z \in S : m <= z

Range(s) == {s[i] : i \in 1..Len(s)}

\* A polygon is a sequence of points <<x, y>>.
Rect(x1, y1, x2, y2) == <<<<x1, y1>>, <<x2, y1>>, <<x2, y2>>, <<x1, y2>>>>

xs(box) == {box[i][1] : i \in 1..Len(box)}

ys(box) == {box[i][2] : i \in 1..Len(box)}

box_width(box) == SetMax(xs(box)) - SetMin(xs(box))

box_height(box) == SetMax(ys(box)) - SetMin(ys(box))

(***************************************************************************)
(* Font measurement: draw.textbbox((0, 0), text, font=truetype(path, mid)) *)
(* A font is described by the advance of a glyph and the height of a line, *)
(* both in tenths of the font size; the measured width and height of a     *)
(* text grow with the size.                                                *)
(***************************************************************************)
Fonts == {[cw |-> 5, ch |-> 3], [cw |-> 6, ch |-> 7], [cw |-> 10, ch |-> 12]}

text_w(text, size, f) == (Len(text) * size * f.cw) \div 10

text_h(text, size, f) == (size * f.ch) \div 10

(***************************************************************************)
(* TextRenderer._calculate_optimal_font_size                               *)
(***************************************************************************)
DefaultSize == 10

\* A search range three times the box height instead of twice.
search_high_wide(bh) == 3 * bh

\* high = int(box_height * 2.0)
search_high(bh) == 2 * bh

\* A fit test with a tolerance of 1.3 instead of 1.2.
fits_loose(tw, th, bw, bh) == 10 * tw <= 13 * bw /\ 10 * th <= 13 * bh

\* text_w <= box_width * 1.2 and text_h <= box_height * 1.2
fits(tw, th, bw, bh) == 10 * tw <= 12 * bw /\ 10 * th <= 12 * bh

\* The two branches of the search exchanged: a fitting size sends the search
\* to the smaller sizes.
RECURSIVE search_loop_swapped(_, _, _, _, _, _, _, _)
search_loop_swapped(low, high, optimal_size, accepted, text, bw, bh, f) ==
    IF low > high
    THEN [size |-> optimal_size, accepted |-> accepted]
    ELSE LET mid == (low + high) \div 2
         IN IF fits(text_w(text, mid, f), text_h(text, mid, f), bw, bh)
            THEN search_loop_swapped(low, mid - 1, mid, TRUE, text, bw, bh, f)
            ELSE search_loop_swapped(mid + 1, high, optimal_size, accepted, text, bw, bh, f)

\* The while loop; 'accepted' records whether line 134 ever assigned.
RECURSIVE search_loop(_, _, _, _, _, _, _, _)
search_loop(low, high, optimal_size, accepted, text, bw, bh, f) ==
    IF low > high
    THEN [size |-> optimal_size, accepted |-> accepted]
    ELSE LET mid == (low + high) \div 2
         IN IF fits(text_w(text, mid, f), text_h(text, mid, f), bw, bh)
            THEN search_loop(mid + 1, high, mid, TRUE, text, bw, bh, f)
            ELSE search_loop(low, mid - 1, optimal_size, accepted, text, bw, bh, f)

calculate_optimal_font_size(text, box, f) ==
    LET bw == box_width(box)
        bh == box_height(box)
    IN IF bw <= 0 \/ bh <= 0
       THEN [size |-> DefaultSize, accepted |-> FALSE]
       ELSE search_loop(1, search_high(bh), DefaultSize, FALSE, text, bw, bh, f)

(***************************************************************************)
(* TextRenderer.render_text, step 2: group and standardize sizes           *)
(***************************************************************************)
NoSize == 0

\* list.sort(key=size) is stable: e goes after every entry not larger.
RECURSIVE insert_sorted(_, _)
insert_sorted(e, s) ==
    IF s = <<>> THEN <<e>>
    ELSE IF Head(s).size <= e.size
         THEN <<Head(s)>> \o insert_sorted(e, Tail(s))
         ELSE <<e>> \o s

RECURSIVE sort_by_size(_)
sort_by_size(s) ==
    IF s = <<>> THEN <<>>
    ELSE insert_sorted(s[Len(s)], sort_by_size(SubSeq(s, 1, Len(s) - 1)))

\* A tier break at 1.3 times the previous size instead of 1.2.
same_group_loose(curr, prev) == 10 * curr <= 13 * prev

\* A tier break as soon as the size reaches 1.2 times the previous one.
same_group_strict(curr, prev) == 10 * curr < 12 * prev

\* curr['size'] <= prev['size'] * 1.2
same_group(curr, prev) == 10 * curr <= 12 * prev

\* The for loop of lines 77-84 followed by the append of line 85.
RECURSIVE group_loop(_, _, _, _)
group_loop(items, i, current_group, gs) ==
    IF i > Len(items)
    THEN Append(gs, current_group)
    ELSE IF same_group(items[i].size, items[i - 1].size)
         THEN group_loop(items, i + 1, Append(current_group, i), gs)
         ELSE group_loop(items, i + 1, <<i>>, Append(gs, current_group))

make_groups(items) ==
    IF items = <<>> THEN <<>> ELSE group_loop(items, 2, <<1>>, <<>>)

RECURSIVE sum_sizes(_, _)
sum_sizes(items, g) ==
    IF g = <<>> THEN 0 ELSE items[Head(g)].size + sum_sizes(items, Tail(g))

\* The group's sum divided by the number of all units, not of its members.
target_size_of_all(items, g) == sum_sizes(items, g) \div Len(items)

\* The mean rounded to the nearest integer, as round() would.
target_size_nearest(items, g) == (2 * sum_sizes(items, g) + Len(g)) \div (2 * Len(g))

\* target_size = int(sum(sizes) / len(sizes))
target_size(items, g) == sum_sizes(items, g) \div Len(g)

\* for group in groups: for entry in group: entry['final_size'] = target_size
assign_final(items, gs) ==
    [i \in 1..Len(items) |->
        IF \E k \in 1..Len(gs) : i \in Range(gs[k])
        THEN LET k == CHOOSE k \in 1..Len(gs) : i \in Range(gs[k])
             IN target_size(items, gs[k])
        ELSE NoSize]

\* entry.get('final_size', entry['size'])
draw_size(items, fs, i) == IF fs[i] = NoSize THEN items[i].size ELSE fs[i]

(***************************************************************************)
(* Translator.translate_and_analyze and Translator._create_fallback_data   *)
(*                                                                         *)
(* A unit of analysis_data is a record; a key the dict does not have is    *)
(* marked by has_text / has_box = FALSE or by the value "missing".         *)
(* The id is [kind, val]: an integer, a missing key, a string that is not  *)
(* a number, or a JSON list.                                               *)
(***************************************************************************)
NoBox == <<>>

IntId(n) == [kind |-> "int", val |-> n]

MissingId == [kind |-> "missing", val |-> 0]

BadStringId == [kind |-> "bad_string", val |-> 0]

ListId == [kind |-> "list", val |-> 0]

\* "id": i, "translated_text": block['text'], "box": block['box'],
\* "text_color_hex": "#000000", "alignment": "center"
fallback_unit(i, block) ==
    [is_object |-> TRUE, id |-> IntId(i), has_text |-> TRUE,
     translated_text |-> block.text, has_box |-> TRUE, box |-> block.box,
     text_color_hex |-> "#000000", alignment |-> "center"]

create_fallback_data(blocks) ==
    [i \in 1..Len(blocks) |-> fallback_unit(i - 1, blocks[i])]

\* idx in ocr_map, with ocr_map = {i: block['box'] for i, block in enumerate(text_blocks)}
in_ocr_map(idx, blocks) == idx >= 0 /\ idx < Len(blocks)

\* The body of the loop 'for item in analysis_data' for one item: the item
\* after the body and the exception the body raised, "none" if it raised none.
\* A ValueError of int(raw_id) is caught inside the body.
match_id(item, blocks) ==
    IF ~item.is_object
    THEN [exc |-> "AttributeError", item |-> item]
    ELSE IF item.id.kind = "missing"
    THEN [exc |-> "none", item |-> item]
    ELSE IF item.id.kind = "list"
    THEN [exc |-> "TypeError", item |-> item]
    ELSE IF item.id.kind = "bad_string"
    THEN [exc |-> "none", item |-> item]
    ELSE IF in_ocr_map(item.id.val, blocks)
    THEN [exc |-> "none",
          item |-> [item EXCEPT !.has_box = TRUE, !.box = blocks[item.id.val + 1].box]]
    ELSE [exc |-> "none", item |-> item]

RECURSIVE match_loop(_, _, _)
match_loop(items, i, blocks) ==
    IF i > Len(items)
    THEN [exc |-> "none", data |-> items]
    ELSE LET r == match_id(items[i], blocks)
         IN IF r.exc # "none"
            THEN [exc |-> r.exc, data |-> items]
            ELSE match_loop([items EXCEPT ![i] = r.item], i + 1, blocks)

\* The try block of lines 41-130: the exception it raises, "none" if it
\* returns, and the value it returns.
try_body(resp, blocks) ==
    CASE resp.kind = "rate_limit" -> [exc |-> "RateLimitError", data |-> <<>>]
      [] resp.kind = "auth_error" -> [exc |-> "AuthenticationError", data |-> <<>>]
      [] resp.kind = "other_error" -> [exc |-> "Exception", data |-> <<>>]
      [] resp.kind = "invalid_json" -> [exc |-> "JSONDecodeError", data |-> <<>>]
      [] resp.kind = "json_scalar" -> [exc |-> "TypeError", data |-> <<>>]
      [] resp.kind = "json_nonempty_nonlist" -> [exc |-> "AttributeError", data |-> <<>>]
      [] resp.kind = "json_empty_nonlist" -> [exc |-> "none", data |-> <<>>]
      [] resp.kind = "json_list" -> match_loop(resp.items, 1, blocks)

\* except RateLimitError / except AuthenticationError / except Exception
handled(exc) ==
    \/ exc = "RateLimitError"
    \/ exc = "AuthenticationError"
    \/ exc \in {"Exception", "JSONDecodeError", "TypeError", "AttributeError",
                "ValueError"}

translate_and_analyze(blocks, resp) ==
    IF resp.kind = "no_client"
    THEN [raised |-> FALSE, data |-> create_fallback_data(blocks)]
    ELSE LET r == try_body(resp, blocks)
         IN IF r.exc = "none"
            THEN [raised |-> FALSE, data |-> r.data]
            ELSE IF handled(r.exc)
            THEN [raised |-> FALSE, data |-> create_fallback_data(blocks)]
            ELSE [raised |-> TRUE, data |-> <<>>]

(***************************************************************************)
(* TextRenderer.render_text                                                *)
(***************************************************************************)
StripChars == {"[", "]", "'", "\""}

\* A cleaning that removes the brackets but keeps the quotes.
RECURSIVE remove_chars_keep_quotes(_)
remove_chars_keep_quotes(t) ==
    IF t = <<>> THEN <<>>
    ELSE IF Head(t) \in {"[", "]"}
         THEN remove_chars_keep_quotes(Tail(t))
         ELSE <<Head(t)>> \o remove_chars_keep_quotes(Tail(t))

RECURSIVE remove_chars(_)
remove_chars(t) ==
    IF t = <<>> THEN <<>>
    ELSE IF Head(t) \in StripChars
         THEN remove_chars(Tail(t))
         ELSE <<Head(t)>> \o remove_chars(Tail(t))

RECURSIVE lstrip(_)
lstrip(t) ==
    IF t = <<>> THEN <<>>
    ELSE IF Head(t) = " " THEN lstrip(Tail(t)) ELSE t

RECURSIVE rstrip(_)
rstrip(t) ==
    IF t = <<>> THEN <<>>
    ELSE IF t[Len(t)] = " " THEN rstrip(SubSeq(t, 1, Len(t) - 1)) ELSE t

\* Cleaning that removes the brackets and quotes but does not strip.
clean_text_no_strip(t) == remove_chars(t)

\* re.sub(r"[\[\]\'\"]", "", text).strip()
clean_text(t) == rstrip(lstrip(remove_chars(t)))

\* item.get('translated_text', '')
get_text(item) == IF item.has_text THEN item.translated_text ELSE <<>>

\* 'box' in item
has_box_key(item) == item.has_box

\* Step 1: the loop over zip(ocr_boxes, translated_texts, styles); 'style'
\* is the position of the unit in analysis_data.
RECURSIVE size_loop(_, _, _)
size_loop(data, i, f) ==
    IF i > Len(data) THEN <<>>
    ELSE IF ~has_box_key(data[i]) \/ clean_text(get_text(data[i])) = <<>>
         THEN size_loop(data, i + 1, f)
         ELSE <<[box |-> data[i].box,
                 text |-> clean_text(get_text(data[i])),
                 style |-> i,
                 size |-> calculate_optimal_font_size(
                              clean_text(get_text(data[i])), data[i].box, f).size]>>
              \o size_loop(data, i + 1, f)

\* style.get('text_color_hex', '#000000')
get_color(item) ==
    IF item.text_color_hex = "missing" THEN "#000000" ELSE item.text_color_hex

\* The anchor chosen by _draw_text.
anchor(alignment) ==
    IF alignment = "left" THEN "lm"
    ELSE IF alignment = "right" THEN "rm" ELSE "mm"

\* style.get('alignment', 'center')
get_alignment(item) ==
    IF item.alignment = "missing" THEN "center" ELSE item.alignment

\* Step 3: one _draw_text call per entry of sized_items.
draw_all(items, fs, data) ==
    [i \in 1..Len(items) |->
        [box |-> items[i].box,
         text |-> items[i].text,
         style |-> items[i].style,
         size |-> draw_size(items, fs, i),
         color |-> get_color(data[items[i].style]),
         anchor |-> anchor(get_alignment(data[items[i].style]))]]

(***************************************************************************)
(* Images and masks: a pixel is <<x, y>>, an image maps pixels to values,  *)
(* a mask is given by its set of pixels of value 255.                      *)
(***************************************************************************)
ImgW == 10

ImgH == 3

Pixels == {<<x, y>> : x \in 0..(ImgW - 1), y \in 0..(ImgH - 1)}

NPix == 3

\* cv2.fillPoly(mask, [pts], 255) for an axis-aligned quadrilateral: the
\* pixels of the rectangle, border included, that lie in the image.
fill_poly(box) ==
    {p \in Pixels : /\ SetMin(xs(box)) <= p[1] /\ p[1] <= SetMax(xs(box))
                    /\ SetMin(ys(box)) <= p[2] /\ p[2] <= SetMax(ys(box))}

\* Offsets of a k x k kernel of ones around its default anchor (k // 2).
kernel_offsets(k) == (0 - (k \div 2))..(k - 1 - (k \div 2))

\* A dilation that takes what lies outside the image for 255.
dilate_bright_border(m, k) ==
    {p \in Pixels : \E dx \in kernel_offsets(k), dy \in kernel_offsets(k) :
                        \/ <<p[1] + dx, p[2] + dy>> \in m
                        \/ <<p[1] + dx, p[2] + dy>> \notin Pixels}

\* cv2.dilate(mask, np.ones((k, k)), iterations=1)
dilate(m, k) ==
    {p \in Pixels : \E dx \in kernel_offsets(k), dy \in kernel_offsets(k) :
                        <<p[1] + dx, p[2] + dy>> \in m}

\* A kernel of 3 x padding + 2 instead of padding.
mask_kernel_wide(pad) == 3 * pad + 2

\* kernel = np.ones((padding, padding), np.uint8)
mask_kernel(pad) == pad

\* Inpainter.create_mask, lines 28-36
create_mask(bxs, pad) ==
    LET filled == UNION {fill_poly(bxs[i]) : i \in 1..Len(bxs)}
    IN IF pad > 0 THEN dilate(filled, mask_kernel(pad)) ELSE filled

(***************************************************************************)
(* Inpainter.inpaint, inpaint_simple_fill, inpaint_cv2 and the             *)
(* reconstruction stage of process_image                                   *)
(***************************************************************************)
\* cv2.inpaint(img, m, radius, cv2.INPAINT_TELEA): pixels outside m are
\* copied, pixels inside m get a synthesized value; which value is the
\* library's business and is drawn here from a seed.
telea(image, m, seed) ==
    [p \in Pixels |-> IF p \in m THEN (seed + p[1] + p[2]) % NPix ELSE image[p]]

\* A micro dilation with a 5 x 5 kernel instead of 3 x 3.
micro_dilate_wide(m) == dilate(m, 5)

\* kernel_dilate = np.ones((3, 3), np.uint8); cv2.dilate(mask, kernel_dilate, iterations=1)
micro_dilate(m) == dilate(m, 3)

\* The second definition of inpaint_simple_fill, the one Python keeps.
inpaint_simple_fill(image, m, seed) ==
    [raised |-> FALSE, source |-> "simple_fill", filled |-> micro_dilate(m),
     out |-> telea(image, micro_dilate(m), seed)]

inpaint_cv2(image, m, seed) ==
    [raised |-> FALSE, source |-> "cv2", filled |-> m, out |-> telea(image, m, seed)]

\* response.content of a successful call: an image of the service's making.
generated(image, seed) == [p \in Pixels |-> (image[p] + seed + 1) % NPix]

\* Every answer of the service counts as a success.
service_ok_always(svc) == TRUE

\* response.status_code == 200, reached only if requests.post returned
service_ok(svc) == svc = "ok_200"

\* Inpainter.inpaint: without key inpaint_cv2; a status other than 200 raises
\* inside the try block, and every exception of the try block ends in
\* inpaint_simple_fill.
inpaint(key, svc, image, m, seed) ==
    IF ~key
    THEN inpaint_cv2(image, m, seed)
    ELSE IF service_ok(svc)
    THEN [raised |-> FALSE, source |-> "generative", filled |-> {},
          out |-> generated(image, seed)]
    ELSE inpaint_simple_fill(image, m, seed)

\* process_image, lines 99-107
process_image_inpainting(key, svc, image, m, seed) ==
    IF key
    THEN LET r == inpaint(key, svc, image, m, seed)
         IN IF r.raised THEN inpaint_simple_fill(image, m, seed) ELSE r
    ELSE inpaint_simple_fill(image, m, seed)

(***************************************************************************)
(* PIL: Image.save, ImageDraw.text, Image.crop and Image.paste             *)
(***************************************************************************)
Formats == {"jpg", "png"}

MaxNoise == 1

\* What a lossy encoding does to the pixel p; n = 0 is an image the
\* encoding happens to keep.
noise_at(n, p) == IF n > 0 /\ (p[1] + p[2] + n) % 2 = 0 THEN 1 ELSE 0

\* The encoder's error patterns: a lossless format has none to choose from.
Noises(fmt) == IF fmt = "png" THEN {0} ELSE 0..MaxNoise

\* A save that always loses pixels, whatever the extension.
save_image_lossy(image, fmt, n) ==
    [p \in DOMAIN image |-> (image[p] + noise_at(n + 1, p)) % NPix]

\* image.save(path): the format follows the extension; .png keeps every
\* pixel, .jpg is a lossy encoding.
save_image(image, fmt, n) ==
    [p \in DOMAIN image |->
        IF fmt = "png" THEN image[p] ELSE (image[p] + noise_at(n, p)) % NPix]

\* fill=color_hex, as a pixel value
ink(color) == IF color = "#000000" THEN 0 ELSE 1

\* The pixels draw.text covers: the measured text placed by the anchor at
\* (draw_x, center_y), clipped to the image.
text_pixels(d, f) ==
    LET tw == text_w(d.text, d.size, f)
        th == text_h(d.text, d.size, f)
        min_x == SetMin(xs(d.box))
        max_x == SetMax(xs(d.box))
        center_x == (min_x + max_x) \div 2
        center_y == (SetMin(ys(d.box)) + SetMax(ys(d.box))) \div 2
        x0 == IF d.anchor = "lm" THEN min_x
              ELSE IF d.anchor = "rm" THEN max_x - tw ELSE center_x - (tw \div 2)
        y0 == center_y - (th \div 2)
    IN {p \in Pixels : /\ x0 <= p[1] /\ p[1] < x0 + tw
                        /\ y0 <= p[2] /\ p[2] < y0 + th}

\* TextRenderer._draw_text
draw_text(image, d, f) ==
    LET covered == text_pixels(d, f)
        fill == ink(d.color)
    IN [p \in Pixels |-> IF p \in covered THEN fill ELSE image[p]]

\* The loop of step 3 on the image opened from bg_image_path.
RECURSIVE draw_texts(_, _, _, _)
draw_texts(image, ds, i, f) ==
    IF i > Len(ds) THEN image
    ELSE draw_texts(draw_text(image, ds[i], f), ds, i + 1, f)

\* final_image.save(output_path)
render_output(final_image, fmt, n) == save_image(final_image, fmt, n)

CropPixels(r) == {<<i, j>> : i \in 0..(r[3] - 1), j \in 0..(r[4] - 1)}

\* img.crop((x, y, x + w, y + h)): a w x h image; what lies outside the
\* source is filled with 0.  cropped.convert("RGB").save(crop_path) writes
\* a .jpg file.
crop_image(image, r, n) ==
    save_image([q \in CropPixels(r) |->
                   IF <<r[1] + q[1], r[2] + q[2]>> \in Pixels
                   THEN image[<<r[1] + q[1], r[2] + q[2]>>] ELSE 0],
               "jpg", n)

\* A paste with the two offsets exchanged.
paste_swapped(orig, c, x, y) ==
    [p \in Pixels |->
        IF <<p[1] - y, p[2] - x>> \in DOMAIN c
        THEN c[<<p[1] - y, p[2] - x>>] ELSE orig[p]]

\* orig_rgba.paste(crop_rgba, (x, y), crop_rgba) with an opaque crop: the
\* part of the crop that falls inside the image replaces the pixels there.
paste(orig, c, x, y) ==
    [p \in Pixels |->
        IF <<p[1] - x, p[2] - y>> \in DOMAIN c
        THEN c[<<p[1] - x, p[2] - y>>] ELSE orig[p]]

\* ImageUtils.merge_image
merge_image(orig, c, x, y, fmt, n) == save_image(paste(orig, c, x, y), fmt, n)

(***************************************************************************)
(* The pipeline runs: process_image of backend_api.py ("api"), main of     *)
(* app.py ("app") and main of verify_pipeline.py ("verify").               *)
(*                                                                         *)
(* A path is a sequence of pieces of text; an extension is one piece.      *)
(***************************************************************************)
NoPath == <<>>

\* f"{int(time.time())}"
stamp(t) == ToString(t)

\* str.replace(old, new), new given as pieces
RECURSIVE replace(_, _, _)
replace(path, old, new) ==
    IF path = <<>> THEN <<>>
    ELSE (IF Head(path) = old THEN new ELSE <<Head(path)>>)
         \o replace(Tail(path), old, new)

\* temp_filename = f"upload_{int(time.time())}_{file.filename}"
temp_filename(t, name) == <<"upload_", stamp(t), "_">> \o name

\* The image the run works on before any crop.
upload_path(front, t, name) ==
    IF front = "api" THEN <<"assets/">> \o temp_filename(t, name)
    ELSE IF front = "app" THEN <<"assets/", "temp_web_upload", ".jpg">>
    ELSE <<"assets/", "chinese_test", ".png">>

\* crop_path = os.path.join(dir_name, f"{file_name}_crop_{x}_{y}.jpg")
crop_path(image_path, x, y) ==
    SubSeq(image_path, 1, Len(image_path) - 1)
        \o <<"_crop_", stamp(x), "_", stamp(y), ".jpg">>

\* image_path.replace(".jpg", "_mask.png").replace(".png", "_mask.png")
mask_path(image_path) ==
    replace(replace(image_path, ".jpg", <<"_mask", ".png">>),
            ".png", <<"_mask", ".png">>)

inpainted_path(front, t, name) ==
    IF front = "api"
    THEN <<"assets/", "inpainted_">> \o temp_filename(t, name) \o <<".webp">>
    ELSE IF front = "app" THEN <<"assets/", "temp_crop_inpainted", ".webp">>
    ELSE <<"assets/", "pipeline_restored_bg", ".webp">>

\* The output_path handed to render_text.
render_path(front, t) ==
    IF front = "api" THEN <<"outputs/", "result_", stamp(t), ".jpg">>
    ELSE IF front = "app" THEN <<"assets/", "temp_crop_output_", "Korean", ".jpg">>
    ELSE <<"outputs/", "output_", "Korean", "_", stamp(t), ".jpg">>

\* final_merged_path of app.py
merged_path(t) == <<"assets/", "final_merged_output_", stamp(t), ".jpg">>

foreign_read(fs, path, r) == \E f \in fs : f.path = path /\ f.writer # r

write_files(fs, paths, r) ==
    {f \in fs : f.path \notin paths} \cup {[path |-> q, writer |-> r] : q \in paths}

InFlight(run) == run.pc \notin {"idle", "done"}

\* What the caller is told when the stage 'cause' raises.
failure_reason(front, cause) ==
    IF cause = "upload" THEN "Internal Server Error"
    ELSE IF cause = "ocr_empty"
    THEN (IF front = "app" THEN "Text not found in the selected area."
          ELSE "No text detected. Aborting pipeline.")
    ELSE IF cause = "missing" THEN "Test image not found"
    ELSE IF cause = "ocr" THEN "OCR failed"
    ELSE IF cause = "load" THEN "Could not load image"
    ELSE IF cause = "fill" THEN "Could not load image or mask"
    ELSE IF cause = "translate" THEN "'translated_text'"
    ELSE "Rendering failed"

\* The run ends in the except clause of its front end, or in a return.
fail(run, cause) ==
    [run EXCEPT !.pc = "done", !.outcome = "error", !.cause = cause,
                !.reason = failure_reason(run.front, cause)]

\* One step of the run r: its record after the step, the files the step
\* reads and the files it writes.
RunStep(r, after, reads, temps, outputs) ==
    /\ runs' = [runs EXCEPT ![r] =
                   [after EXCEPT !.foreign = @ \/ \E q \in reads : foreign_read(files, q, r),
                                 !.temps = @ \cup temps]]
    /\ files' = write_files(files, temps \cup outputs, r)
    /\ UNCHANGED <<pc, clock, fitVars, sizeVars, transVars, maskVars, inpaintVars,
                   ocrVars, composeVars, mergeVars>>

\* process_image lines 66-70, app.py lines 54-61, verify_pipeline lines 26-30
RunSaveUpload(r) ==
    /\ runs[r].pc = "idle"
    /\ LET run == runs[r]
           path == upload_path(run.front, clock, run.name)
           others == \E q \in DOMAIN runs : q # r /\ InFlight(runs[q])
           begun == [run EXCEPT !.t_in = clock, !.overlap = others]
       IN /\ IF ~run.save_ok
             THEN runs' = [q \in DOMAIN runs |->
                              IF q = r
                              THEN fail(begun, IF run.front = "verify" THEN "missing"
                                               ELSE "upload")
                              ELSE [runs[q] EXCEPT !.overlap = @ \/ InFlight(runs[q])]]
             ELSE runs' = [q \in DOMAIN runs |->
                              IF q = r
                              THEN [begun EXCEPT
                                      !.pc = IF run.front = "app" THEN "crop" ELSE "ocr",
                                      !.image_path = path,
                                      !.temps = IF run.front = "verify" THEN {} ELSE {path}]
                              ELSE [runs[q] EXCEPT !.overlap = @ \/ InFlight(runs[q])]]
          /\ files' = IF run.save_ok /\ run.front # "verify"
                      THEN write_files(files, {path}, r) ELSE files
    /\ UNCHANGED <<pc, clock, fitVars, sizeVars, transVars, maskVars, inpaintVars,
                   ocrVars, composeVars, mergeVars>>

\* app.py line 127
RunCrop(r) ==
    /\ runs[r].pc = "crop"
    /\ LET run == runs[r]
           path == crop_path(run.image_path, run.x, 0)
       IN RunStep(r, [run EXCEPT !.pc = "ocr", !.image_path = path],
                  {run.image_path}, {path}, {})

\* ocr = OCREngine(...); ocr_results = ocr.detect_text(path)
RunDetect(r) ==
    /\ runs[r].pc = "ocr"
    /\ LET run == runs[r]
       IN RunStep(r,
                  IF run.ocr = "raises" THEN fail(run, "ocr")
                  ELSE IF run.ocr = "empty" /\ run.front # "api"
                  THEN fail(run, "ocr_empty")
                  ELSE [run EXCEPT !.pc = "mask"],
                  {run.image_path}, {}, {})

\* mask_path = inpainter.create_mask(path, all_boxes, padding=...)
RunMask(r) ==
    /\ runs[r].pc = "mask"
    /\ LET run == runs[r]
           path == mask_path(run.image_path)
       IN IF ~run.cv2_ok
          THEN RunStep(r, fail(run, "load"), {run.image_path}, {}, {})
          ELSE RunStep(r, [run EXCEPT !.pc = "inpaint", !.mask_path = path],
                       {run.image_path}, {path}, {})

\* inpaint_simple_fill as the run's front end calls it: process_image and
\* app.py let its exception end the run, verify_pipeline falls back to the
\* image it works on.
local_fill(run) ==
    IF run.fill = "raises"
    THEN (IF run.front = "verify"
          THEN [run EXCEPT !.pc = "translate", !.bg_path = run.image_path]
          ELSE fail(run, "fill"))
    ELSE [run EXCEPT !.pc = "translate",
                     !.bg_path = inpainted_path(run.front, run.t_in, run.name)]

fill_writes(run) ==
    IF run.fill = "raises" THEN {}
    ELSE {inpainted_path(run.front, run.t_in, run.name)}

\* process_image lines 100-107, app.py line 143, verify_pipeline line 91;
\* with a key process_image calls inpaint, which posts to the service.
RunInpaint(r) ==
    /\ runs[r].pc = "inpaint"
    /\ LET run == runs[r]
       IN IF run.front = "api" /\ run.key
          THEN RunStep(r, [run EXCEPT !.pc = "inpaint_wait"],
                       {run.image_path, run.mask_path}, {}, {})
          ELSE RunStep(r, local_fill(run), {run.image_path, run.mask_path},
                       fill_writes(run), {})

\* requests.post of inpainter.py line 83 returns or raises; it has no
\* timeout, so it does neither while the service stays silent.
RunServiceReturns(r) ==
    /\ runs[r].pc = "inpaint_wait"
    /\ runs[r].service # "hangs"
    /\ LET run == runs[r]
       IN IF service_ok(run.service)
          THEN RunStep(r, [run EXCEPT !.pc = "translate",
                              !.bg_path = inpainted_path(run.front, run.t_in, run.name)],
                       {}, {inpainted_path(run.front, run.t_in, run.name)}, {})
          ELSE RunStep(r, local_fill(run), {run.image_path, run.mask_path},
                       fill_writes(run), {})

\* translate_and_analyze and what the front end does with its result:
\* process_image line 114 reads item['translated_text'] of every unit,
\* verify_pipeline line 122 renders only a non-empty result.
RunTranslate(r) ==
    /\ runs[r].pc = "translate"
    /\ LET run == runs[r]
       IN RunStep(r,
                  IF run.front = "api" /\ run.reply = "no_text"
                  THEN fail(run, "translate")
                  ELSE IF run.front = "verify" /\ run.reply = "empty"
                  THEN [run EXCEPT !.pc = "done", !.outcome = "silent"]
                  ELSE [run EXCEPT !.pc = "render"],
                  {run.image_path}, {}, {})

\* renderer.render_text(bg_to_use, analysis_data, output_path)
RunRender(r) ==
    /\ runs[r].pc = "render"
    /\ LET run == runs[r]
           path == render_path(run.front, clock)
       IN IF ~run.render_ok
          THEN RunStep(r, fail(run, "render"), {run.bg_path}, {}, {})
          ELSE IF run.front = "app"
          THEN RunStep(r, [run EXCEPT !.pc = "merge", !.crop_out = path],
                       {run.bg_path}, {path}, {})
          ELSE RunStep(r, [run EXCEPT !.pc = "done", !.outcome = "success",
                              !.out_path = path, !.wrote_output = TRUE],
                       {run.bg_path}, {}, {path})

\* app.py lines 154-161
RunMerge(r) ==
    /\ runs[r].pc = "merge"
    /\ LET run == runs[r]
           path == merged_path(clock)
       IN RunStep(r, [run EXCEPT !.pc = "done", !.outcome = "success",
                         !.out_path = path, !.wrote_output = TRUE],
                  {upload_path(run.front, run.t_in, run.name), run.crop_out}, {}, {path})

(***************************************************************************)
(* OCREngine.detect_text                                                   *)
(***************************************************************************)
\* A legacy line without a score gets 0.99; scores are in hundredths.
parse_line(line) ==
    [box |-> line.box, text |-> line.text,
     score |-> IF line.has_score THEN line.score ELSE 99]

Unreadable == 99999

\* h, w = img.shape[:2], or 99999, 99999 if the image cannot be read
clamp_dims(ok, size) == IF ok THEN size ELSE <<Unreadable, Unreadable>>

\* No clamping at all.
clamp_box_identity(box, dims) == box

\* cx = max(0, min(w, point[0])); cy = max(0, min(h, point[1]))
clamp_box(box, dims) ==
    [i \in 1..Len(box) |->
        <<Max(0, Min(dims[1], box[i][1])), Max(0, Min(dims[2], box[i][2]))>>]

RECURSIVE shoelace(_, _)
shoelace(box, i) ==
    IF i > Len(box) THEN 0
    ELSE LET j == IF i = Len(box) THEN 1 ELSE i + 1
         IN box[i][1] * box[j][2] - box[j][1] * box[i][2] + shoelace(box, i + 1)

\* Twice cv2.contourArea(poly): the unsigned shoelace sum.
area2(box) ==
    LET a == shoelace(box, 1) IN IF a < 0 THEN 0 - a ELSE a

\* score < 0.6
low_score(score) == score < 60

\* area < 50
small_area(box) == area2(box) < 100

\* The filtering loop of lines 100-130.
RECURSIVE filter_loop(_, _, _)
filter_loop(parsed, i, dims) ==
    IF i > Len(parsed) THEN <<>>
    ELSE IF low_score(parsed[i].score)
    THEN filter_loop(parsed, i + 1, dims)
    ELSE IF small_area(clamp_box(parsed[i].box, dims))
    THEN filter_loop(parsed, i + 1, dims)
    ELSE <<[parsed[i] EXCEPT !.box = clamp_box(parsed[i].box, dims)]>>
         \o filter_loop(parsed, i + 1, dims)

detect_text(raw, ok, size) ==
    filter_loop([i \in 1..Len(raw) |-> parse_line(raw[i])], 1, clamp_dims(ok, size))

(***************************************************************************)
(* Values of the variables a component study does not touch                *)
(***************************************************************************)
NoResult == [size |-> 0, accepted |-> FALSE]

IdleFit ==
    /\ font = [cw |-> 5, ch |-> 3]
    /\ fit_box = Rect(0, 0, 0, 0)
    /\ fit_text = <<>>
    /\ fit_result = NoResult

IdleSize ==
    /\ sized_items = <<>>
    /\ groups = <<>>
    /\ final_size = <<>>

NoResponse == [kind |-> "no_client", items |-> <<>>]

IdleTrans ==
    /\ text_blocks = <<>>
    /\ response = NoResponse
    /\ analysis_data = <<>>
    /\ raised = FALSE
    /\ drawn = <<>>

IdleMask ==
    /\ boxes = <<>>
    /\ padding = 0
    /\ image_ok = TRUE
    /\ mask = {}
    /\ mask_raised = "none"

NoImage == [p \in Pixels |-> 0]

IdleInpaint ==
    /\ img = NoImage
    /\ api_key = FALSE
    /\ service = "ok_200"
    /\ restored = NoImage
    /\ bg_source = "none"
    /\ entry = "none"
    /\ stage_raised = FALSE
    /\ fill_mask = {}

IdleOcr ==
    /\ ocr_raw = <<>>
    /\ img_size = <<0, 0>>
    /\ valid_results = <<>>

\* No file has been written yet.
NoFile == <<>>

IdleCompose ==
    /\ out_format = "png"
    /\ rendered_img = NoFile

NoRoi == <<0, 0, 0, 0>>

IdleMerge ==
    /\ roi = NoRoi
    /\ crop = <<>>
    /\ merged = NoFile

IdleRun ==
    /\ clock = 0
    /\ runs = <<>>
    /\ files = {}

(***************************************************************************)
(* Inputs of the translate-and-render study                                *)
(***************************************************************************)
MaxBlocks == 2

MaxRespUnits == 2

\* The i-th detected region: regions of one image are distinct.
BlockBox(i) == Rect(10, 100 * i, 10 + 40 * i * i, 100 * i + 12 + 24 * (i - 1) * i)

BlockTexts == {<<"H", "I">>, <<"'", " ", "'">>}

BlockLists ==
    UNION {{[i \in 1..n |-> [box |-> BlockBox(i), text |-> t[i], score |-> 9]] :
               t \in [1..n -> BlockTexts]} : n \in 0..MaxBlocks}

RespIds == {MissingId, BadStringId, ListId} \cup {IntId(n) : n \in 0..MaxBlocks}

RespTexts ==
    {[has_text |-> TRUE, translated_text |-> <<"'", "O", "K", "'", " ">>,
      text_color_hex |-> "#FF0000", alignment |-> "left"],
     [has_text |-> TRUE, translated_text |-> <<"O", "K">>,
      text_color_hex |-> "missing", alignment |-> "missing"],
     [has_text |-> TRUE, translated_text |-> <<"[", " ", "]">>,
      text_color_hex |-> "missing", alignment |-> "right"],
     [has_text |-> FALSE, translated_text |-> <<>>,
      text_color_hex |-> "missing", alignment |-> "missing"]}

\* A JSON value that is not an object, such as a number.
NonObject ==
    [is_object |-> FALSE, id |-> MissingId, has_text |-> FALSE,
     translated_text |-> <<>>, has_box |-> FALSE, box |-> NoBox,
     text_color_hex |-> "missing", alignment |-> "missing"]

RespUnits ==
    {NonObject} \cup
    {[is_object |-> TRUE, id |-> d, has_text |-> t.has_text,
      translated_text |-> t.translated_text, has_box |-> FALSE, box |-> NoBox,
      text_color_hex |-> t.text_color_hex, alignment |-> t.alignment] :
         d \in RespIds, t \in RespTexts}

FailureKinds ==
    {"no_client", "rate_limit", "auth_error", "other_error", "invalid_json",
     "json_scalar", "json_nonempty_nonlist", "json_empty_nonlist"}

Responses ==
    {[kind |-> k, items |-> <<>>] : k \in FailureKinds} \cup
    {[kind |-> "json_list", items |-> u] :
        u \in UNION {[1..n -> RespUnits] : n \in 0..MaxRespUnits}}

RenderFont == [cw |-> 6, ch |-> 7]

InitRender ==
    /\ pc = "start"
    /\ IdleCompose
    /\ IdleMerge
    /\ IdleRun
    /\ font = RenderFont
    /\ fit_box = Rect(0, 0, 0, 0)
    /\ fit_text = <<>>
    /\ fit_result = NoResult
    /\ IdleMask
    /\ IdleInpaint
    /\ IdleOcr
    /\ IdleSize
    /\ text_blocks \in BlockLists
    /\ response \in Responses
    /\ analysis_data = <<>>
    /\ raised = FALSE
    /\ drawn = <<>>

Translate ==
    /\ pc = "start"
    /\ LET r == translate_and_analyze(text_blocks, response)
       IN /\ analysis_data' = r.data
          /\ raised' = r.raised
          /\ pc' = IF r.raised THEN "failed" ELSE "translated"
    /\ UNCHANGED <<mergeVars, runVars, composeVars, fitVars, sizeVars, text_blocks, response, drawn, maskVars, inpaintVars, ocrVars>>

RenderText ==
    /\ pc = "translated"
    /\ LET sized == size_loop(analysis_data, 1, font)
           sorted == sort_by_size(sized)
           gs == make_groups(sorted)
           fs == assign_final(sorted, gs)
           ds == draw_all(sorted, fs, analysis_data)
           final_image == draw_texts(restored, ds, 1, font)
       IN /\ sized_items' = sorted
          /\ groups' = gs
          /\ final_size' = fs
          /\ drawn' = ds
          /\ \E n \in Noises(out_format) :
                rendered_img' = render_output(final_image, out_format, n)
    /\ pc' = "rendered"
    /\ UNCHANGED <<mergeVars, runVars, out_format, fitVars, text_blocks, response, analysis_data, raised, maskVars,
                   inpaintVars, ocrVars>>

NextRender == Translate \/ RenderText

SpecRender == InitRender /\ [][NextRender]_vars

(***************************************************************************)
(* Inputs of the size-harmonization study: sized_items as step 1 leaves    *)
(* them, in any order, with any solved sizes.                              *)
(***************************************************************************)
MaxUnits == 3

SolvedSizes == {1, 8, 10, 11, 12, 13, 14, 15, 20}

UnitBox == Rect(0, 0, 10, 10)

SizedLists ==
    UNION {[1..n -> SolvedSizes] : n \in 0..MaxUnits}

InitHarmonize ==
    /\ pc = "sized"
    /\ IdleCompose
    /\ IdleMerge
    /\ IdleRun
    /\ IdleMask
    /\ IdleInpaint
    /\ IdleOcr
    /\ IdleFit
    /\ IdleTrans
    /\ \E sz \in SizedLists :
          sized_items = [i \in 1..Len(sz) |->
              [box |-> UnitBox, text |-> <<"A">>, style |-> i, size |-> sz[i]]]
    /\ groups = <<>>
    /\ final_size = [i \in 1..Len(sized_items) |-> NoSize]

Harmonize ==
    /\ pc = "sized"
    /\ LET sorted == sort_by_size(sized_items)
           gs == make_groups(sorted)
       IN /\ sized_items' = sorted
          /\ groups' = gs
          /\ final_size' = assign_final(sorted, gs)
    /\ pc' = "harmonized"
    /\ UNCHANGED <<mergeVars, runVars, composeVars, fitVars, transVars, maskVars, inpaintVars, ocrVars>>

NextHarmonize == Harmonize

SpecHarmonize == InitHarmonize /\ [][NextHarmonize]_vars

(***************************************************************************)
(* Inputs of the font-fit study                                            *)
(***************************************************************************)
FitWidths == {0, 3, 40, 300}

FitHeights == {0, 4, 12, 60}

FitBoxes == {Rect(100, 100, 100 + w, 100 + h) : w \in FitWidths, h \in FitHeights}

HelloWorld == <<"H", "E", "L", "L", "O", " ", "W", "O", "R", "L", "D">>

FitTexts == {<<"A">>, <<"H", "I">>, HelloWorld}

InitFit ==
    /\ pc = "fit_ready"
    /\ IdleCompose
    /\ IdleMerge
    /\ IdleRun
    /\ IdleMask
    /\ IdleInpaint
    /\ IdleOcr
    /\ IdleSize
    /\ IdleTrans
    /\ font \in Fonts
    /\ fit_box \in FitBoxes
    /\ fit_text \in FitTexts
    /\ fit_result = NoResult

CalcFontSize ==
    /\ pc = "fit_ready"
    /\ fit_result' = calculate_optimal_font_size(fit_text, fit_box, font)
    /\ pc' = "fit_done"
    /\ UNCHANGED <<mergeVars, runVars, composeVars, font, fit_box, fit_text, sizeVars, transVars, maskVars, inpaintVars, ocrVars>>

NextFit == CalcFontSize

SpecFit == InitFit /\ [][NextFit]_vars

(***************************************************************************)
(* Inputs of the mask study                                                *)
(***************************************************************************)
MaxBoxes == 3

MaxPadding == 2

MaskBoxes ==
    {Rect(0, 0, 1, 0), Rect(2, 0, 7, 0), Rect(8, 0, 9, 0), Rect(3, 2, 3, 2),
     Rect(0, 0, 0, ImgH), Rect(6, 1, 7, 2), Rect(9, 0, ImgW, ImgH), Rect(4, 0, 5, 1)}

InitMask ==
    /\ pc = "mask_start"
    /\ IdleCompose
    /\ IdleMerge
    /\ IdleRun
    /\ IdleFit
    /\ IdleSize
    /\ IdleTrans
    /\ IdleInpaint
    /\ IdleOcr
    /\ boxes \in UNION {[1..n -> MaskBoxes] : n \in 0..MaxBoxes}
    /\ padding \in 0..MaxPadding
    /\ image_ok \in BOOLEAN
    /\ mask = {}
    /\ mask_raised = "none"

\* Inpainter.create_mask
CreateMask ==
    /\ pc = "mask_start"
    /\ IF image_ok
       THEN /\ mask' = create_mask(boxes, padding)
            /\ mask_raised' = "none"
            /\ pc' = "masked"
       ELSE /\ mask' = mask
            /\ mask_raised' = "FileNotFoundError"
            /\ pc' = "mask_failed"
    /\ UNCHANGED <<mergeVars, runVars, composeVars, fitVars, sizeVars, transVars, boxes, padding, image_ok, inpaintVars,
                   ocrVars>>

NextMask == CreateMask

SpecMask == InitMask /\ [][NextMask]_vars

(***************************************************************************)
(* Inputs of the reconstruction study                                      *)
(***************************************************************************)
MaxRegions == 2

\* padding=2 in process_image and verify_pipeline, padding=5 in app.py
CallerPaddings == {2, 5}

InpaintBoxes == {Rect(1, 0, 2, 0), Rect(4, 1, 5, 2), Rect(8, 0, 9, 1), Rect(0, 0, ImgW, ImgH)}

Images ==
    {[p \in Pixels |-> 0],
     [p \in Pixels |-> (p[1] + 2 * p[2]) % NPix],
     [p \in Pixels |-> IF p[1] < 5 THEN 1 ELSE 0]}

Services == {"ok_200", "status_error", "exception"}

InitInpaint ==
    /\ pc = "mask_start"
    /\ IdleCompose
    /\ IdleMerge
    /\ IdleRun
    /\ IdleFit
    /\ IdleSize
    /\ IdleTrans
    /\ IdleOcr
    /\ boxes \in UNION {[1..n -> InpaintBoxes] : n \in 0..MaxRegions}
    /\ padding \in CallerPaddings
    /\ image_ok \in BOOLEAN
    /\ mask = {}
    /\ mask_raised = "none"
    /\ img \in Images
    /\ api_key \in BOOLEAN
    /\ service \in Services
    /\ restored = NoImage
    /\ bg_source = "none"
    /\ entry = "none"
    /\ stage_raised = FALSE
    /\ fill_mask = {}

Reconstruct(how, r) ==
    /\ entry' = how
    /\ stage_raised' = r.raised
    /\ fill_mask' = IF r.raised THEN fill_mask ELSE r.filled
    /\ bg_source' = IF r.raised THEN "none" ELSE r.source
    /\ restored' = IF r.raised THEN restored ELSE r.out
    /\ pc' = IF r.raised THEN "stage_failed" ELSE "restored"
    /\ UNCHANGED <<mergeVars, runVars, composeVars, fitVars, sizeVars, transVars, maskVars, img, api_key, service, ocrVars>>

\* process_image, lines 99-107
ProcessImageInpainting ==
    /\ pc = "masked"
    /\ \E seed \in 0..(NPix - 1) :
          Reconstruct("process_image",
                      process_image_inpainting(api_key, service, img, mask, seed))

\* Inpainter.inpaint called by itself
CallInpaint ==
    /\ pc = "masked"
    /\ \E seed \in 0..(NPix - 1) :
          Reconstruct("inpaint", inpaint(api_key, service, img, mask, seed))

\* Inpainter.inpaint_simple_fill called by itself (app.py, verify_pipeline.py)
CallInpaintSimpleFill ==
    /\ pc = "masked"
    /\ \E seed \in 0..(NPix - 1) :
          Reconstruct("inpaint_simple_fill", inpaint_simple_fill(img, mask, seed))

NextInpaint ==
    \/ CreateMask
    \/ ProcessImageInpainting
    \/ CallInpaint
    \/ CallInpaintSimpleFill

SpecInpaint == InitInpaint /\ [][NextInpaint]_vars

(***************************************************************************)
(* Inputs of the detection study                                           *)
(***************************************************************************)
MaxRaw == 2

RawBoxes ==
    {Rect(0, 0, 10, 5), Rect(0, 0, 7, 7), Rect(0 - 5, 0 - 5, 10, 10),
     Rect(15, 0, 40, 10), Rect(18, 0, 40, 10),
     <<<<0, 0>>, <<10, 10>>, <<10, 0>>, <<0, 10>>>>,
     <<<<0, 0>>, <<10, 0>>, <<14, 6>>, <<4, 6>>>>}

RawLines ==
    {[box |-> b, text |-> <<"A">>, score |-> sc, has_score |-> TRUE] :
        b \in RawBoxes, sc \in {59, 60, 95}}
    \cup {[box |-> b, text |-> <<"A">>, score |-> 0, has_score |-> FALSE] : b \in RawBoxes}

ImageSizes == {<<20, 20>>, <<12, 8>>}

InitOcr ==
    /\ pc = "ocr_start"
    /\ IdleCompose
    /\ IdleMerge
    /\ IdleRun
    /\ IdleFit
    /\ IdleSize
    /\ IdleTrans
    /\ IdleInpaint
    /\ boxes = <<>>
    /\ padding = 0
    /\ image_ok \in BOOLEAN
    /\ mask = {}
    /\ mask_raised = "none"
    /\ ocr_raw \in UNION {[1..n -> RawLines] : n \in 0..MaxRaw}
    /\ img_size \in ImageSizes
    /\ valid_results = <<>>

\* OCREngine.detect_text
DetectText ==
    /\ pc = "ocr_start"
    /\ valid_results' = detect_text(ocr_raw, image_ok, img_size)
    /\ pc' = "detected"
    /\ UNCHANGED <<mergeVars, runVars, composeVars, fitVars, sizeVars, transVars, maskVars, inpaintVars, ocr_raw, img_size>>

NextOcr == DetectText

SpecOcr == InitOcr /\ [][NextOcr]_vars

(***************************************************************************)
(* Inputs of the region-of-interest study: crop, process the crop, merge   *)
(***************************************************************************)
RoiXs == {0 - 1, 0, 2, ImgW - 2}

RoiYs == {0 - 1, 0, 1}

RoiSides == {1, 3}

Rois == {<<x, y, w, h>> : x \in RoiXs, y \in RoiYs, w \in RoiSides, h \in RoiSides}

InitMerge ==
    /\ pc = "merge_start"
    /\ IdleRun
    /\ IdleFit
    /\ IdleSize
    /\ IdleTrans
    /\ IdleMask
    /\ IdleOcr
    /\ img \in Images
    /\ api_key = FALSE
    /\ service = "ok_200"
    /\ restored = NoImage
    /\ bg_source = "none"
    /\ entry = "none"
    /\ stage_raised = FALSE
    /\ fill_mask = {}
    /\ out_format \in Formats
    /\ rendered_img = NoFile
    /\ roi \in Rois
    /\ crop = <<>>
    /\ merged = NoFile

\* ImageUtils.crop_image
CropImage ==
    /\ pc = "merge_start"
    /\ \E n \in Noises("jpg") : crop' = crop_image(img, roi, n)
    /\ pc' = "cropped"
    /\ UNCHANGED <<runVars, composeVars, fitVars, sizeVars, transVars, maskVars,
                   inpaintVars, ocrVars, roi, merged>>

\* The pipeline between crop and merge: detection, reconstruction and
\* drawing leave an image of the crop's size with other pixel values.
ProcessCrop ==
    /\ pc = "cropped"
    /\ \E seed \in 0..(NPix - 1) :
          crop' = [q \in DOMAIN crop |-> (crop[q] + seed + q[1]) % NPix]
    /\ pc' = "processed"
    /\ UNCHANGED <<runVars, composeVars, fitVars, sizeVars, transVars, maskVars,
                   inpaintVars, ocrVars, roi, merged>>

\* ImageUtils.merge_image
MergeImage ==
    /\ pc = "processed"
    /\ \E n \in Noises(out_format) :
          merged' = merge_image(img, crop, roi[1], roi[2], out_format, n)
    /\ pc' = "merged"
    /\ UNCHANGED <<runVars, composeVars, fitVars, sizeVars, transVars, maskVars,
                   inpaintVars, ocrVars, roi, crop>>

NextMerge == CropImage \/ ProcessCrop \/ MergeImage

SpecMerge == InitMerge /\ [][NextMerge]_vars

(***************************************************************************)
(* Inputs of the pipeline-run studies                                      *)
(***************************************************************************)
MaxClock == 1

UploadNames == {<<"a", ".jpg">>, <<"a", ".webp">>}

AppXs == {0, 2}

\* What the world around one run does: the upload can be written (for
\* verify_pipeline: the test image exists), the detector, cv2.imread, the
\* Stability key and service, cv2.inpaint, the translator's result and the
\* renderer.
RunEnvs ==
    [save_ok : BOOLEAN, ocr : {"blocks", "empty", "raises"}, cv2_ok : BOOLEAN,
     key : BOOLEAN, service : Services \cup {"hangs"}, fill : {"ok", "raises"},
     reply : {"units", "empty", "no_text"}, render_ok : BOOLEAN]

QuietEnvs ==
    {e \in RunEnvs : /\ e.save_ok /\ e.ocr = "blocks" /\ e.cv2_ok
                      /\ e.service = "ok_200" /\ e.fill = "ok"
                      /\ e.reply = "units" /\ e.render_ok}

new_run(front, name, x, e) ==
    [front |-> front, name |-> name, x |-> x,
     save_ok |-> e.save_ok, ocr |-> e.ocr, cv2_ok |-> e.cv2_ok, key |-> e.key,
     service |-> e.service, fill |-> e.fill, reply |-> e.reply,
     render_ok |-> e.render_ok,
     pc |-> "idle", t_in |-> 0, image_path |-> NoPath, mask_path |-> NoPath,
     bg_path |-> NoPath, crop_out |-> NoPath, out_path |-> NoPath, temps |-> {},
     foreign |-> FALSE, overlap |-> FALSE, outcome |-> "none", reason |-> "none",
     cause |-> "none", wrote_output |-> FALSE]

OtherIdle ==
    /\ IdleFit
    /\ IdleSize
    /\ IdleTrans
    /\ IdleMask
    /\ IdleInpaint
    /\ IdleOcr
    /\ IdleCompose
    /\ IdleMerge

\* One run of one front end.
InitRun ==
    /\ pc = "serving"
    /\ OtherIdle
    /\ clock = 0
    /\ files = {}
    /\ \E front \in {"api", "app", "verify"}, e \in RunEnvs :
          runs = <<new_run(front, <<"a", ".jpg">>, 0, e)>>

RunNext(r) ==
    \/ RunSaveUpload(r)
    \/ RunCrop(r)
    \/ RunDetect(r)
    \/ RunMask(r)
    \/ RunInpaint(r)
    \/ RunServiceReturns(r)
    \/ RunTranslate(r)
    \/ RunRender(r)
    \/ RunMerge(r)

NextRun == \E r \in DOMAIN runs : RunNext(r)

SpecRun == InitRun /\ [][NextRun]_vars

\* The interpreter keeps running the code of a run: every step that can be
\* taken is taken.
SpecRunFair == SpecRun /\ WF_vars(NextRun)

\* Two requests to the same server, each handled by a worker of its own.
InitServe ==
    /\ pc = "serving"
    /\ OtherIdle
    /\ clock = 0
    /\ files = {}
    /\ \/ \E n1, n2 \in UploadNames, e1, e2 \in QuietEnvs :
             runs = <<new_run("api", n1, 0, e1), new_run("api", n2, 0, e2)>>
       \/ \E x1, x2 \in AppXs, e \in {q \in QuietEnvs : ~q.key} :
             runs = <<new_run("app", <<"a", ".jpg">>, x1, e),
                      new_run("app", <<"a", ".jpg">>, x2, e)>>

\* A second passes.
Tick ==
    /\ clock < MaxClock
    /\ clock' = clock + 1
    /\ UNCHANGED <<pc, runs, files, fitVars, sizeVars, transVars, maskVars,
                   inpaintVars, ocrVars, composeVars, mergeVars>>

NextServe == Tick \/ \E r \in DOMAIN runs : RunNext(r)

SpecServe == InitServe /\ [][NextServe]_vars

(***************************************************************************)
(* Inputs of the drawing study: render_text on a reconstructed background  *)
(***************************************************************************)
MaxDrawUnits == 2

DrawUnits ==
    {[is_object |-> TRUE, id |-> IntId(0), has_text |-> TRUE,
      translated_text |-> <<"O", "K">>, has_box |-> TRUE, box |-> Rect(1, 0, 6, 2),
      text_color_hex |-> "#FF0000", alignment |-> "left"],
     [is_object |-> TRUE, id |-> IntId(1), has_text |-> TRUE,
      translated_text |-> <<"'", " ", "'">>, has_box |-> TRUE, box |-> Rect(4, 0, 9, 2),
      text_color_hex |-> "missing", alignment |-> "missing"],
     [is_object |-> TRUE, id |-> MissingId, has_text |-> TRUE,
      translated_text |-> <<"O", "K">>, has_box |-> FALSE, box |-> NoBox,
      text_color_hex |-> "missing", alignment |-> "missing"]}

InitCompose ==
    /\ pc = "translated"
    /\ IdleRun
    /\ IdleMerge
    /\ IdleMask
    /\ IdleOcr
    /\ IdleSize
    /\ font = RenderFont
    /\ fit_box = Rect(0, 0, 0, 0)
    /\ fit_text = <<>>
    /\ fit_result = NoResult
    /\ text_blocks = <<>>
    /\ response = NoResponse
    /\ analysis_data \in UNION {[1..n -> DrawUnits] : n \in 0..MaxDrawUnits}
    /\ raised = FALSE
    /\ drawn = <<>>
    /\ img = NoImage
    /\ api_key = FALSE
    /\ service = "ok_200"
    /\ restored \in Images
    /\ bg_source = "simple_fill"
    /\ entry = "process_image"
    /\ stage_raised = FALSE
    /\ fill_mask = {}
    /\ out_format \in Formats
    /\ rendered_img = NoFile

NextCompose == RenderText

SpecCompose == InitCompose /\ [][NextCompose]_vars

(***************************************************************************)
(* Claims                                                                  *)
(***************************************************************************)
RECURSIVE Pow(_, _)
Pow(b, n) == IF n = 0 THEN 1 ELSE b * Pow(b, n - 1)

GroupSizes(k) == {sized_items[i].size : i \in Range(groups[k])}

AllFinalSet ==
    /\ DOMAIN final_size = 1..Len(sized_items)
    /\ \A i \in 1..Len(sized_items) :
          /\ final_size[i] # NoSize
          /\ Cardinality({k \in 1..Len(groups) : i \in Range(groups[k])}) = 1

\* C1 as stated: after harmonization every sized unit carries exactly one
\* final size and all solved sizes of a group lie in [group_min, 1.2 x group_min).
C1_GroupWithinTwentyPercentOfMin ==
    pc = "harmonized" =>
        /\ AllFinalSet
        /\ \A k \in 1..Len(groups) : \A s \in GroupSizes(k) :
              /\ s >= SetMin(GroupSizes(k))
              /\ 10 * s < 12 * SetMin(GroupSizes(k))

\* C1 amended: after harmonization every sized unit carries exactly one final
\* size, and inside a group taken in ascending order every solved size is at
\* most 1.2 x the size just before it, so a group of k members lies in
\* [group_min, group_min x 1.2^(k-1)].
C1_GroupChainedWithinTwentyPercent ==
    pc = "harmonized" =>
        /\ AllFinalSet
        /\ \A k \in 1..Len(groups) :
              /\ \A j \in 2..Len(groups[k]) :
                    /\ sized_items[groups[k][j - 1]].size <= sized_items[groups[k][j]].size
                    /\ 10 * sized_items[groups[k][j]].size
                          <= 12 * sized_items[groups[k][j - 1]].size
              /\ \A s \in GroupSizes(k) :
                    /\ s >= SetMin(GroupSizes(k))
                    /\ Pow(10, Len(groups[k]) - 1) * s
                          <= Pow(12, Len(groups[k]) - 1) * SetMin(GroupSizes(k))

\* A group whose largest solved size reaches 1.2 x its smallest.
C1_Witness ==
    /\ pc = "harmonized"
    /\ \E k \in 1..Len(groups) :
          /\ Len(groups[k]) >= 2
          /\ 10 * SetMax(GroupSizes(k)) >= 12 * SetMin(GroupSizes(k))

\* C4 as stated: the solver's size lies in [10, max(10, 0.9 x box height)];
\* for a box of height 60 it is at most 54.
C4_SizeWithinNinetyPercentOfHeight ==
    pc = "fit_done" =>
        /\ fit_result.size >= 10
        /\ 10 * fit_result.size <= Max(100, 9 * box_height(fit_box))
        /\ (box_height(fit_box) = 60 => fit_result.size <= 54)

\* C4 amended: the solver's size lies in [1, max(10, 2 x box height)];
\* for a box of height 60 it is at most 120.
C4_SizeWithinTwiceHeight ==
    pc = "fit_done" =>
        /\ fit_result.size >= 1
        /\ fit_result.size <= Max(10, 2 * box_height(fit_box))
        /\ (box_height(fit_box) = 60 => fit_result.size <= 120)

\* A box of height 60 solved above 54.
C4_Witness ==
    /\ pc = "fit_done"
    /\ box_height(fit_box) = 60
    /\ fit_result.size > 54

\* C5 as stated: a size accepted as fitting measures at most 1.1 x the box
\* width and at most 1.1 x the box height.
C5_AcceptedWithinTenPercent ==
    (pc = "fit_done" /\ fit_result.accepted) =>
        /\ 10 * text_w(fit_text, fit_result.size, font) <= 11 * box_width(fit_box)
        /\ 10 * text_h(fit_text, fit_result.size, font) <= 11 * box_height(fit_box)

\* C5 amended: a size accepted as fitting measures at most 1.2 x the box
\* width and at most 1.2 x the box height.
C5_AcceptedWithinTwentyPercent ==
    (pc = "fit_done" /\ fit_result.accepted) =>
        /\ 10 * text_w(fit_text, fit_result.size, font) <= 12 * box_width(fit_box)
        /\ 10 * text_h(fit_text, fit_result.size, font) <= 12 * box_height(fit_box)

\* An accepted size whose text is wider than 1.1 x the box.
C5_Witness ==
    /\ pc = "fit_done"
    /\ fit_result.accepted
    /\ 10 * text_w(fit_text, fit_result.size, font) > 11 * box_width(fit_box)

\* C6: the solver returns a size of at least 10 for every box and text, and
\* exactly 10 when no candidate size fits.
C6_NeverBelowMinFontSize ==
    pc = "fit_done" =>
        /\ fit_result.size >= 10
        /\ (~fit_result.accepted => fit_result.size = 10)

IsFailure == response.kind \in FailureKinds \/
             \E i \in 1..Len(response.items) : ~response.items[i].is_object

Translated == pc \in {"translated", "rendered", "failed"}

\* C2: on every failure of the external call (no client, rate limit,
\* authentication error, any other exception, invalid JSON, JSON that is not
\* a list of objects) translate_and_analyze does not raise and returns one
\* unit per text block, in order, with id = index, the block's text and box,
\* color #000000 and alignment center.
C2_FailureGivesIdentityFallback ==
    (Translated /\ IsFailure) =>
        /\ ~raised
        /\ Len(analysis_data) = Len(text_blocks)
        /\ \A i \in 1..Len(text_blocks) :
              /\ analysis_data[i].id = IntId(i - 1)
              /\ analysis_data[i].has_text
              /\ analysis_data[i].translated_text = text_blocks[i].text
              /\ analysis_data[i].has_box
              /\ analysis_data[i].box = text_blocks[i].box
              /\ analysis_data[i].text_color_hex = "#000000"
              /\ analysis_data[i].alignment = "center"

Matches(item) == item.id.kind = "int" /\ in_ocr_map(item.id.val, text_blocks)

DrawnFor(i) == {j \in 1..Len(drawn) : drawn[j].style = i}

CleansToEmpty(t) == \A n \in 1..Len(t) : t[n] \in {"[", "]", "'", "\"", " "}

Cheb(p, q) ==
    Max(IF p[1] >= q[1] THEN p[1] - q[1] ELSE q[1] - p[1],
        IF p[2] >= q[2] THEN p[2] - q[2] ELSE q[2] - p[2])

\* Number of pixels between two non-empty filled areas.
Gap(a, b) == SetMin({Cheb(p, q) : p \in a, q \in b}) - 1

\* The 8-connected component of the mask around the pixels s.
RECURSIVE Component(_, _)
Component(s, m) ==
    LET n == s \cup {p \in m : \E q \in s : Cheb(p, q) <= 1}
    IN IF n = s THEN s ELSE Component(n, m)

Filled(i) == fill_poly(boxes[i])

SameComponent(i, j) ==
    /\ Filled(i) # {}
    /\ Filled(j) # {}
    /\ Component(Filled(i), mask) \cap Filled(j) # {}

FarApart(i, j) ==
    /\ Filled(i) # {}
    /\ Filled(j) # {}
    /\ Gap(Filled(i), Filled(j)) > 2 * padding

\* The regions reachable from the regions s by steps between regions that
\* are not far apart.
RECURSIVE Chain(_)
Chain(s) ==
    LET n == s \cup {j \in 1..Len(boxes) :
                        Filled(j) # {} /\ \E i \in s : ~FarApart(i, j)}
    IN IF n = s THEN s ELSE Chain(n)

\* C9 as stated: in the mask of create_mask with padding e, two regions whose
\* filled areas are more than 2 x e pixels apart are never in the same
\* connected component of 255-valued pixels.
C9_FarRegionsNeverConnected ==
    pc = "masked" =>
        \A i, j \in 1..Len(boxes) : FarApart(i, j) => ~SameComponent(i, j)

\* C9 amended: two regions more than 2 x e pixels apart are in the same
\* connected component only if a chain of regions links them in which each
\* region is at most 2 x e pixels from the next.
C9_FarRegionsConnectedOnlyThroughChain ==
    pc = "masked" =>
        \A i, j \in 1..Len(boxes) :
            (FarApart(i, j) /\ SameComponent(i, j)) => j \in Chain({i})

\* Two regions more than 2 x e apart, dilated with e > 0, in different components.
C9_Witness ==
    /\ pc = "masked"
    /\ padding > 0
    /\ \E i, j \in 1..Len(boxes) :
          /\ FarApart(i, j)
          /\ ~SameComponent(i, j)
          /\ Gap(Filled(i), Filled(j)) = 2 * padding + 1

ServiceUnavailable == ~api_key \/ service # "ok_200"

IsTeleaOf(out, image, m) == \A p \in Pixels \ m : out[p] = image[p]

C8_UnmaskedPixelsUnchanged ==
    (pc = "restored" /\ bg_source = "simple_fill") =>
        \A p \in Pixels \ mask : restored[p] = img[p]

\* C8 amended: inpaint_simple_fill leaves every pixel equal to the input
\* image's pixel unless the pixel or one of its eight neighbours has mask
\* value 255 in the caller's mask.
C8_PixelsAwayFromMaskUnchanged ==
    (pc = "restored" /\ bg_source = "simple_fill") =>
        \A p \in Pixels :
            (\A q \in mask : Cheb(p, q) > 1) => restored[p] = img[p]

\* A pixel of mask value 0 next to the mask that the fill changed.
C8_Witness ==
    /\ pc = "restored"
    /\ bg_source = "simple_fill"
    /\ \E p \in Pixels \ mask :
          /\ \E q \in mask : Cheb(p, q) = 1
          /\ restored[p] # img[p]

InImage(box, w, h) ==
    \A i \in 1..Len(box) :
        /\ 0 <= box[i][1] /\ box[i][1] <= w
        /\ 0 <= box[i][2] /\ box[i][2] <= h

\* C10 as stated: every block returned by detect_text has confidence >= 0.6,
\* area >= 50 on the clamped polygon and every vertex inside [0,w] x [0,h]
\* of the image.
C10_ReturnedBlocksFilteredAndInImage ==
    pc = "detected" =>
        \A i \in 1..Len(valid_results) :
            /\ valid_results[i].score >= 60
            /\ area2(valid_results[i].box) >= 100
            /\ InImage(valid_results[i].box, img_size[1], img_size[2])

\* C10 amended: every block returned by detect_text has confidence >= 0.6 and
\* area >= 50 on the clamped polygon; every vertex is inside [0,w] x [0,h]
\* of the image when cv2 can read the image, and inside [0,99999] x [0,99999]
\* when it cannot.
C10_ReturnedBlocksFilteredAndInImageIfReadable ==
    pc = "detected" =>
        \A i \in 1..Len(valid_results) :
            /\ valid_results[i].score >= 60
            /\ area2(valid_results[i].box) >= 100
            /\ (image_ok => InImage(valid_results[i].box, img_size[1], img_size[2]))
            /\ (~image_ok => InImage(valid_results[i].box, 99999, 99999))

\* A raw polygon reaching outside a readable image, returned clamped, next
\* to a raw block that was filtered out.
C10_Witness ==
    /\ pc = "detected"
    /\ image_ok
    /\ Len(valid_results) < Len(ocr_raw)
    /\ \E i \in 1..Len(ocr_raw) :
          /\ ~InImage(ocr_raw[i].box, img_size[1], img_size[2])
          /\ \E k \in 1..Len(valid_results) :
                valid_results[k].box = clamp_box(ocr_raw[i].box, img_size)

\* The units of analysis_data that carry a box and whose text is empty
\* after cleaning.
EmptyCleaned(i) ==
    /\ has_box_key(analysis_data[i])
    /\ CleansToEmpty(get_text(analysis_data[i]))

\* C11: in render_text a unit whose translated text is empty after cleaning
\* (only brackets, quotes and blanks, or no text at all) is not handed to the
\* font-fit solver, is in no group of the size harmonization and causes no
\* draw operation; every other unit with a box is sized once and drawn once.
C11_EmptyCleanedTextSkipped ==
    pc = "rendered" =>
        /\ Len(drawn) = Len(sized_items)
        /\ \A i \in 1..Len(analysis_data) :
              /\ CleansToEmpty(get_text(analysis_data[i])) =>
                    /\ \A j \in 1..Len(sized_items) : sized_items[j].style # i
                    /\ \A k \in 1..Len(groups) : \A j \in Range(groups[k]) :
                          sized_items[j].style # i
                    /\ DrawnFor(i) = {}
              /\ (has_box_key(analysis_data[i])
                     /\ ~CleansToEmpty(get_text(analysis_data[i]))) =>
                    /\ Cardinality({j \in 1..Len(sized_items) :
                                        sized_items[j].style = i}) = 1
                    /\ Cardinality(DrawnFor(i)) = 1

\* A unit with a box and a text of quotes and a blank is skipped while
\* another unit is sized and drawn.
C11_Witness ==
    /\ pc = "rendered"
    /\ \E i, k \in 1..Len(analysis_data) :
          /\ EmptyCleaned(i)
          /\ get_text(analysis_data[i]) # <<>>
          /\ DrawnFor(i) = {}
          /\ DrawnFor(k) # {}

InRoi(p) ==
    /\ roi[1] <= p[1] /\ p[1] < roi[1] + roi[3]
    /\ roi[2] <= p[2] /\ p[2] < roi[2] + roi[4]

\* C12 as stated: after crop_image at (x, y, w, h), processing of the crop
\* and merge_image at (x, y), every pixel of the final image outside the
\* rectangle (x, y)-(x+w, y+h) equals the original image's pixel, for every
\* region of interest, also one reaching past the image border.
C12_OutsideRoiUnchanged ==
    pc = "merged" => \A p \in Pixels : ~InRoi(p) => merged[p] = img[p]

\* C12 amended: the same, when merge_image writes its output in a lossless
\* format; a .jpg output is encoded lossily and may differ everywhere.
C12_OutsideRoiUnchangedIfLossless ==
    (pc = "merged" /\ out_format = "png") =>
        \A p \in Pixels : ~InRoi(p) => merged[p] = img[p]

\* A region of interest reaching past the right border, merged losslessly,
\* with a pixel inside it changed by the processing.
C12_Witness ==
    /\ pc = "merged"
    /\ out_format = "png"
    /\ roi[1] + roi[3] > ImgW
    /\ \E p \in Pixels : InRoi(p) /\ merged[p] # img[p]

Overlapping(r1, r2) == r1 # r2 /\ runs[r1].overlap /\ runs[r2].overlap

\* C13: two requests that overlap in time, also two arriving within the
\* same second, write their output images to different paths.
C13_OutputPathsDiffer ==
    \A r1, r2 \in DOMAIN runs :
        (Overlapping(r1, r2) /\ runs[r1].out_path # NoPath
            /\ runs[r2].out_path # NoPath) =>
            runs[r1].out_path # runs[r2].out_path

\* C14: two requests that overlap in time write disjoint sets of temporary
\* files (upload, crop, mask, reconstructed background), and none reads a
\* file the other wrote.
C14_TempFilesDisjoint ==
    \A r1, r2 \in DOMAIN runs :
        Overlapping(r1, r2) =>
            /\ runs[r1].temps \cap runs[r2].temps = {}
            /\ ~runs[r1].foreign

\* C15: every call to an external service has a timeout, so a run
\* eventually finishes, with a result or an error, even when a service
\* never answers.
C15_RunEventuallyFinishes == <>(\A r \in DOMAIN runs : runs[r].pc = "done")

\* C16: a run that has ended either succeeded and wrote its output image,
\* or failed and told its caller a reason; none ends with neither.
C16_SuccessOrReportedFailure ==
    \A r \in DOMAIN runs :
        runs[r].pc = "done" =>
            \/ runs[r].outcome = "success" /\ runs[r].wrote_output
            \/ /\ runs[r].outcome = "error"
               /\ ~runs[r].wrote_output
               /\ runs[r].reason # "none"

\* C17: a run ends in an error only when the source image cannot be
\* obtained or loaded or the final image cannot be written; a failure of
\* detection, translation or reconstruction never ends it in an error.
C17_OnlyLoadAndSaveAreFatal ==
    \A r \in DOMAIN runs :
        runs[r].outcome = "error" =>
            runs[r].cause \in {"upload", "missing", "load", "render"}

NoUnitHasBox == \A i \in 1..Len(analysis_data) : ~has_box_key(analysis_data[i])

\* C18 as stated: render_text with an empty unit list, or with units none
\* of which has a box, performs no draw operation and its output image
\* equals the reconstructed background pixel for pixel.
C18_NoUnitsOutputEqualsBackground ==
    (pc = "rendered" /\ NoUnitHasBox) =>
        /\ drawn = <<>>
        /\ rendered_img = restored

\* C18 amended: render_text with an empty unit list, or with units none of
\* which has a box, performs no draw operation; its output image equals the
\* reconstructed background pixel for pixel when output_path names a
\* lossless format.
C18_NoUnitsNoDrawLosslessOutputEqualsBackground ==
    (pc = "rendered" /\ NoUnitHasBox) =>
        /\ drawn = <<>>
        /\ sized_items = <<>>
        /\ (out_format = "png" => rendered_img = restored)

\* Units without a box rendered onto a background that is not uniform, and
\* written losslessly.
C18_Witness ==
    /\ pc = "rendered"
    /\ analysis_data # <<>>
    /\ NoUnitHasBox
    /\ out_format = "png"
    /\ restored # NoImage
    /\ rendered_img = restored

\* C19: create_mask with zero regions, on an image that can be read and for
\* every padding, completes without error and writes a mask whose pixels
\* are all 0.
C19_ZeroRegionsAllZeroMask ==
    (pc \in {"masked", "mask_failed"} /\ boxes = <<>> /\ image_ok) =>
        /\ pc = "masked"
        /\ mask_raised = "none"
        /\ mask = {}

\* No region and a padding that makes create_mask dilate with a kernel
\* wider than one pixel.
C19_Witness ==
    /\ pc = "masked"
    /\ boxes = <<>>
    /\ padding >= 2
    /\ mask = {}

GroupOf(i) == CHOOSE k \in 1..Len(groups) : i \in Range(groups[k])

\* C20: after harmonization the units are in ascending order of solved
\* size, and two adjacent units are in the same group exactly when the
\* later size is at most 1.2 x the size just before it; otherwise the later
\* unit starts the next group.
C20_AdjacentGroupedIffWithinTwentyPercent ==
    pc = "harmonized" =>
        \A j \in 2..Len(sized_items) :
            /\ sized_items[j - 1].size <= sized_items[j].size
            /\ (10 * sized_items[j].size <= 12 * sized_items[j - 1].size)
                  => GroupOf(j) = GroupOf(j - 1)
            /\ (10 * sized_items[j].size > 12 * sized_items[j - 1].size)
                  => GroupOf(j) = GroupOf(j - 1) + 1

\* A size of exactly 1.2 x its predecessor kept in the group, followed by a
\* size that starts a new group.
C20_Witness ==
    /\ pc = "harmonized"
    /\ \E j \in 2..(Len(sized_items) - 1) :
          /\ 10 * sized_items[j].size = 12 * sized_items[j - 1].size
          /\ GroupOf(j) = GroupOf(j - 1)
          /\ GroupOf(j + 1) # GroupOf(j)

GroupSum(k) == sum_sizes(sized_items, groups[k])

\* C21 as stated: the final size of every member of a group is the mean of
\* the group's solved sizes rounded to the nearest integer, i.e. it is at
\* most one half away from the mean.
C21_FinalSizeIsNearestToMean ==
    pc = "harmonized" =>
        \A k \in 1..Len(groups) : \A i \in Range(groups[k]) :
            /\ 2 * (Len(groups[k]) * final_size[i] - GroupSum(k)) <= Len(groups[k])
            /\ 2 * (GroupSum(k) - Len(groups[k]) * final_size[i]) <= Len(groups[k])

\* C21 amended: the final size of every member of a group is the mean of the
\* group's solved sizes rounded down: the largest integer not above the mean.
C21_FinalSizeIsMeanRoundedDown ==
    pc = "harmonized" =>
        \A k \in 1..Len(groups) : \A i \in Range(groups[k]) :
            /\ Len(groups[k]) * final_size[i] <= GroupSum(k)
            /\ GroupSum(k) < Len(groups[k]) * (final_size[i] + 1)

\* A group whose mean has a fraction above one half, given the integer below.
C21_Witness ==
    /\ pc = "harmonized"
    /\ \E k \in 1..Len(groups) :
          /\ 2 * (GroupSum(k) % Len(groups[k])) > Len(groups[k])
          /\ \A i \in Range(groups[k]) :
                Len(groups[k]) * final_size[i] < GroupSum(k)

\* The sizes the search ranges over: 1 .. 2 x the box height.
SearchRange == 1..(2 * box_height(fit_box))

\* The fit test of a size on the box and text of the state.
Passes(s) ==
    /\ 10 * text_w(fit_text, s, font) <= 12 * box_width(fit_box)
    /\ 10 * text_h(fit_text, s, font) <= 12 * box_height(fit_box)

\* C22: with measures that do not decrease as the size grows, the search
\* ends, and for a box of positive width and height in whose range some size
\* passes the fit test it returns the largest size of the range that passes.
C22_SearchReturnsLargestFittingSize ==
    /\ \A a \in SearchRange : \A b \in SearchRange :
          a <= b => /\ text_w(fit_text, a, font) <= text_w(fit_text, b, font)
                    /\ text_h(fit_text, a, font) <= text_h(fit_text, b, font)
    /\ (pc = "fit_done" /\ box_width(fit_box) > 0 /\ box_height(fit_box) > 0
            /\ \E s \in SearchRange : Passes(s)) =>
          /\ fit_result.accepted
          /\ fit_result.size \in SearchRange
          /\ Passes(fit_result.size)
          /\ \A s \in SearchRange : s > fit_result.size => ~Passes(s)

\* A search that ended strictly inside its range: smaller sizes pass, the
\* next size does not.
C22_Witness ==
    /\ pc = "fit_done"
    /\ box_width(fit_box) > 0
    /\ box_height(fit_box) > 0
    /\ fit_result.accepted
    /\ fit_result.size > 1
    /\ fit_result.size + 1 \in SearchRange
    /\ ~Passes(fit_result.size + 1)

\* The mask after one dilation with a 3 x 3 kernel: the pixels of the mask
\* and their eight neighbours.
DilatedOnce(m) == {p \in Pixels : \E q \in m : Cheb(p, q) <= 1}

\* C23: whenever the background was reconstructed locally (reached by a
\* direct call, after a failed call of the service or for lack of an API
\* key), the mask the fill was computed on is the caller's mask dilated
\* exactly once with a 3 x 3 kernel.
C23_LocalFillDilatesMaskOnce ==
    (pc = "restored" /\ bg_source \in {"simple_fill", "cv2"}) =>
        fill_mask = DilatedOnce(mask)

\* C24: the path create_mask writes the mask to is never the path of the
\* image it was given, whatever the extension of the image's file name.
C24_MaskPathDiffersFromImagePath ==
    \A r \in DOMAIN runs :
        runs[r].mask_path # NoPath => runs[r].mask_path # runs[r].image_path

\* C25: after harmonization every unit is in one group and its final size
\* is at least the smallest and at most the largest solved size of that group.
C25_FinalSizeWithinGroupRange ==
    pc = "harmonized" =>
        /\ AllFinalSet
        /\ \A k \in 1..Len(groups) : \A i \in Range(groups[k]) :
              /\ SetMin(GroupSizes(k)) <= final_size[i]
              /\ final_size[i] <= SetMax(GroupSizes(k))

\* Two groups, one of them with different solved sizes and a final size
\* strictly between its smallest and its largest.
C25_Witness ==
    /\ pc = "harmonized"
    /\ Len(groups) >= 2
    /\ \E k \in 1..Len(groups) : \A i \in Range(groups[k]) :
          /\ SetMin(GroupSizes(k)) < final_size[i]
          /\ final_size[i] < SetMax(GroupSizes(k))

\* C26: after id matching and rendering no two drawn texts have the same
\* box, whatever the translator's response, also one that repeats an id.
C26_AtMostOneDrawnTextPerBox ==
    pc = "rendered" =>
        \A i \in 1..Len(drawn) : \A j \in 1..Len(drawn) :
            i # j => drawn[i].box # drawn[j].box

====
